---- MODULE Spec2Model ----
(***************************************************************************)
(* A model of src/fn.js: the six function combinators when, debounce,      *)
(* counts, arglock, times and rateLimit.                                   *)
(*                                                                         *)
(* A wrapped function is a closure; its closed-over variables are the      *)
(* fields of a record.  A call of a wrapped function is one action: the    *)
(* library is synchronous apart from rateLimit's timer, which the host     *)
(* fires later on the same thread.  The caller's target `fn` is opaque:    *)
(* each invocation is recorded and its outcome (a return value, or a       *)
(* throw) is chosen by the environment.                                    *)
(*                                                                         *)
(* JavaScript values are strings here: "a", "b" are strings, "42" is a     *)
(* number, "t" and "u" are functions, "undefined" is undefined.            *)
(***************************************************************************)
EXTENDS Naturals, Integers, Sequences, FiniteSets, TLC

VARIABLES
    countsW,     \* the counts instances: [Inst -> closure record]
    debounceW,   \* the debounce instances: [Inst -> closure record]
    rateLimitW,  \* the rateLimit instances: [Inst -> closure record]
    timers,      \* the host's pending timers: [timeoutId -> callback closure]
    sched,       \* history: every setTimeout call so far, indexed by timeoutId
    rlog,        \* history: the target invocations made by timer callbacks
    cancelled,   \* history: timeoutIds whose handle was invoked while pending
    lastOp,      \* history: the last operation on a rateLimit instance
    whenW,       \* the when instance, with the caller's predicate
    arglockW,    \* the outcome of the arglock call, and the instance it made
    timesW       \* the times instance

vars == <<countsW, debounceW, rateLimitW, timers, sched, rlog, cancelled, lastOp,
          whenW, arglockW, timesW>>
rateVars == <<rateLimitW, timers, sched, rlog, cancelled, lastOp>>
plainVars == <<whenW, arglockW, timesW>>

(***************************************************************************)
(* Bounds of the exploration.                                              *)
(***************************************************************************)
MaxCalls == 5      \* calls made to one wrapped function
MaxTimes == 3      \* largest `times` given to counts
MaxEvery == 3      \* largest `every` given to debounce
MaxArgs == 1       \* longest argument list (bound, or of one call)
MaxCount == 3      \* largest `count` given to times
MaxSched == 3      \* setTimeout calls made in one run
MaxShared == 4     \* calls made in one run of instances side by side

Inst == {"w1", "w2"}             \* independently created wrapped functions
Strs == {"a", "b"}               \* argument values
Nums == {"42"}
Fns == {"t", "u"}                \* the caller's functions
JsVals == Strs \cup Nums \cup Fns \cup {"undefined"}
Rets == {"r1"}                   \* values the target may return
RetVals == {"r1", "r2"}          \* the same, where the results are told apart
Receivers == {"global", "obj"}   \* values of `this` at a call
Undefined == "undefined"
Throw == "throw"                 \* the target raised
Outcomes == Rets \cup {Throw}
Errors == {Throw, "throw2"}      \* values the target may throw, told apart
Global == "global"               \* the receiver of a plain call

SeqsUpTo(S, n) == UNION {[1..k -> S] : k \in 0..n}
ArgLists == SeqsUpTo(Strs, MaxArgs)

(***************************************************************************)
(* JavaScript truthiness, as `if (check())` applies it.                    *)
(***************************************************************************)
Falsy == {"false", "0", "", "undefined", "null", "NaN"}
Truthy(v) == v \notin Falsy
JsBool(b) == IF b THEN "true" ELSE "false"
PredVals == {"true", "false", "0", "1", "", "x", "undefined"}

(***************************************************************************)
(* typeof v.                                                               *)
(***************************************************************************)
TypeOf(v) ==
    CASE v \in Fns -> "function"
      [] v \in Nums -> "number"
      [] v = "undefined" -> "undefined"
      [] OTHER -> "string"

NoCall == [st |-> 0, value |-> Undefined, invoked |-> <<>>, result |-> Undefined]

(***************************************************************************)
(* fn.apply(this, argv): one invocation of the target, with the outcome    *)
(* the target produced.                                                    *)
(***************************************************************************)
Apply(fn, this, argv, out) == [fn |-> fn, this |-> this, args |-> argv, out |-> out]

(***************************************************************************)
(* The predicates the library itself builds.  Each takes the closure       *)
(* variable `count` and returns its new value with the value returned.     *)
(* count % 0 is NaN in JavaScript, and NaN === 0 is false.                 *)
(***************************************************************************)
\* Mutant of debouncer: tests the count before incrementing it.
debouncerPre(count, every) ==
    [st |-> count + 1,
     value |-> IF every = 0 THEN "false" ELSE JsBool(count % every = 0)]

\* Mutant of debouncer: the count starts again from 0 each time fn is due.
debouncerReset(count, every) ==
    [st |-> IF every # 0 /\ (count + 1) % every = 0 THEN 0 ELSE count + 1,
     value |-> IF every = 0 THEN "false" ELSE JsBool((count + 1) % every = 0)]

\* Mutant of debouncer: tests !(count % every), which holds of NaN.
debouncerNot(count, every) ==
    [st |-> count + 1,
     value |-> IF every = 0 THEN "true" ELSE JsBool((count + 1) % every = 0)]

debouncer(count, every) ==
    [st |-> count + 1,
     value |-> IF every = 0 THEN "false" ELSE JsBool((count + 1) % every = 0)]

\* Mutant of counter: goes on counting once the limit is reached.
counterPast(count, times) ==
    IF count = times
    THEN [st |-> count + 1, value |-> "true"]
    ELSE [st |-> count + 1, value |-> "false"]

counter(count, times) ==
    IF count = times
    THEN [st |-> count, value |-> "true"]
    ELSE [st |-> count + 1, value |-> "false"]

(***************************************************************************)
(* Predicates a caller gives to when.  Their state counts the evaluations  *)
(* made (`evals`).  toggle is the documented example: it flips doLog and   *)
(* returns the new value.  anyCheck returns whatever value v the caller's  *)
(* predicate produces at this evaluation.                                  *)
(***************************************************************************)
toggle(st) ==
    [st |-> [evals |-> st.evals + 1, doLog |-> ~st.doLog], value |-> JsBool(~st.doLog)]

anyCheck(st, v) ==
    [st |-> [st EXCEPT !.evals = @ + 1], value |-> v]

(***************************************************************************)
(* check(): one evaluation of a predicate closure p in state st.           *)
(***************************************************************************)
check(p, st) ==
    CASE p.kind = "debouncer" -> debouncer(st, p.every)
      [] p.kind = "counter" -> counter(st, p.times)
      [] p.kind = "toggle" -> toggle(st)
      [] p.kind = "any" -> anyCheck(st, p.value)

(***************************************************************************)
(* The function when(check, fn, args...) returns, called with `arguments`  *)
(* on receiver `this`; `out` is what fn produces if it is invoked.         *)
(***************************************************************************)
\* Mutant of whenWrapped: evaluates the predicate a second time once it held.
whenWrappedTwice(p, st, fn, args, this, arguments, out) ==
    LET c1 == check(p, st)
        c == IF Truthy(c1.value) THEN check(p, c1.st) ELSE c1
    IN  IF Truthy(c.value)
        THEN [st |-> c.st, value |-> c.value,
              invoked |-> <<Apply(fn, this, args \o arguments, out)>>,
              result |-> out]
        ELSE [st |-> c.st, value |-> c.value, invoked |-> <<>>, result |-> Undefined]

\* Mutant of whenWrapped: applies fn to the call's arguments alone.
whenWrappedUnbound(p, st, fn, args, this, arguments, out) ==
    LET c == check(p, st)
    IN  IF Truthy(c.value)
        THEN [st |-> c.st, value |-> c.value,
              invoked |-> <<Apply(fn, this, arguments, out)>>,
              result |-> out]
        ELSE [st |-> c.st, value |-> c.value, invoked |-> <<>>, result |-> Undefined]

whenWrapped(p, st, fn, args, this, arguments, out) ==
    LET c == check(p, st)
    IN  IF Truthy(c.value)
        THEN [st |-> c.st, value |-> c.value,
              invoked |-> <<Apply(fn, this, args \o arguments, out)>>,
              result |-> out]
        ELSE [st |-> c.st, value |-> c.value, invoked |-> <<>>, result |-> Undefined]

(***************************************************************************)
(* when(check, fn, args...) with a caller's predicate of kind `kind`.      *)
(* History: `calls` counts the calls of the wrapped function, `truthy`     *)
(* those whose predicate value was truthy, `fired` the invocations of fn.  *)
(***************************************************************************)
when(kind, fn, args) ==
    [kind |-> kind, st |-> [evals |-> 0, doLog |-> FALSE], fn |-> fn, args |-> args,
     calls |-> 0, truthy |-> 0, fired |-> 0, arguments |-> <<>>, this |-> Global,
     last |-> [NoCall EXCEPT !.st = [evals |-> 0, doLog |-> FALSE]]]

whenCall(this, arguments, v, out) ==
    /\ whenW # <<>>
    /\ whenW.calls < MaxCalls
    /\ LET r == whenWrapped([kind |-> whenW.kind, value |-> v], whenW.st,
                            whenW.fn, whenW.args, this, arguments, out)
       IN  whenW' = [whenW EXCEPT !.st = r.st,
                                  !.calls = @ + 1,
                                  !.truthy = IF Truthy(r.value) THEN @ + 1 ELSE @,
                                  !.fired = @ + Len(r.invoked),
                                  !.arguments = arguments,
                                  !.this = this,
                                  !.last = r]
    /\ UNCHANGED <<countsW, debounceW, rateVars, arglockW, timesW>>

(***************************************************************************)
(* counts(times, fn, args...).  `count` is the closure variable; `calls`   *)
(* and `firedOn` are history: the calls made so far and the 1-based        *)
(* indexes of the calls on which fn was invoked.                           *)
(***************************************************************************)
counts(times, fn, args) ==
    [times |-> times, fn |-> fn, args |-> args, count |-> 0,
     calls |-> 0, firedOn |-> {}, last |-> NoCall]

countsCall(i, arguments, out) ==
    /\ i \in DOMAIN countsW
    /\ countsW[i].calls < MaxCalls
    /\ LET w == countsW[i]
           r == whenWrapped([kind |-> "counter", times |-> w.times], w.count,
                            w.fn, w.args, Global, arguments, out)
       IN  countsW' = [countsW EXCEPT ![i] =
               [w EXCEPT !.count = r.st,
                         !.calls = @ + 1,
                         !.firedOn = IF r.invoked # <<>> THEN @ \cup {w.calls + 1} ELSE @,
                         !.last = r]]
    /\ UNCHANGED <<debounceW, rateVars, plainVars>>

(***************************************************************************)
(* debounce(every, fn, args...).                                           *)
(***************************************************************************)
debounce(every, fn, args) ==
    [every |-> every, fn |-> fn, args |-> args, count |-> 0,
     calls |-> 0, firedOn |-> {}, last |-> NoCall]

\* Mutant of debounceCall: `count` is one variable shared by every instance.
debounceCallShared(i, arguments, out) ==
    /\ i \in DOMAIN debounceW
    /\ debounceW[i].calls < MaxCalls
    /\ LET w == debounceW[i]
           r == whenWrapped([kind |-> "debouncer", every |-> w.every], w.count,
                            w.fn, w.args, Global, arguments, out)
       IN  debounceW' = [j \in DOMAIN debounceW |->
               IF j = i
               THEN [w EXCEPT !.count = r.st,
                              !.calls = @ + 1,
                              !.firedOn = IF r.invoked # <<>> THEN @ \cup {w.calls + 1} ELSE @,
                              !.last = r]
               ELSE [debounceW[j] EXCEPT !.count = r.st]]
    /\ UNCHANGED <<countsW, rateVars, plainVars>>

debounceCall(i, arguments, out) ==
    /\ i \in DOMAIN debounceW
    /\ debounceW[i].calls < MaxCalls
    /\ LET w == debounceW[i]
           r == whenWrapped([kind |-> "debouncer", every |-> w.every], w.count,
                            w.fn, w.args, Global, arguments, out)
       IN  debounceW' = [debounceW EXCEPT ![i] =
               [w EXCEPT !.count = r.st,
                         !.calls = @ + 1,
                         !.firedOn = IF r.invoked # <<>> THEN @ \cup {w.calls + 1} ELSE @,
                         !.last = r]]
    /\ UNCHANGED <<countsW, rateVars, plainVars>>

(***************************************************************************)
(* The host timer facility.  setTimeout registers a callback under a       *)
(* fresh id; clearTimeout removes a pending one and does nothing, without  *)
(* an error, for an id that has fired or was cleared.  The delay `wait`    *)
(* elapses at some later step: a pending timer may fire at any time after  *)
(* the call that set it has returned, never inside it.                     *)
(***************************************************************************)
setTimeout(tm, id, cb) == [x \in DOMAIN tm \cup {id} |-> IF x = id THEN cb ELSE tm[x]]

clearTimeout(tm, id) == [x \in DOMAIN tm \ {id} |-> tm[x]]

(***************************************************************************)
(* rateLimit(wait, fn): arguments after fn are not read.  `clear` is the   *)
(* closure variable: 0 while undefined, else the timeoutId the current     *)
(* clear function closes over.  History: `given` is the list of arguments  *)
(* the factory was called with after fn; no code reads it.                 *)
(***************************************************************************)
rateLimit(wait, fn, args) == [wait |-> wait, fn |-> fn, clear |-> 0, given |-> args]

NoOp == [op |-> "none", inst |-> "", id |-> 0, wasPending |-> FALSE, result |-> Undefined]

(***************************************************************************)
(* limited(): the wrapped function.  Clears the timer of the previous      *)
(* call, sets a new one whose callback captures `arguments`, stores and    *)
(* returns the clear function of the new timer (handle `id`).              *)
(***************************************************************************)
\* Mutant of limited: does not clear the timer of the previous call.
limitedNoClear(i, arguments) ==
    /\ i \in DOMAIN rateLimitW
    /\ Len(sched) < MaxSched
    /\ LET w == rateLimitW[i]
           id == Len(sched) + 1
           cb == [inst |-> i, fn |-> w.fn, args |-> arguments, wait |-> w.wait]
       IN  /\ timers' = setTimeout(timers, id, cb)
           /\ rateLimitW' = [rateLimitW EXCEPT ![i].clear = id]
           /\ sched' = Append(sched, [inst |-> i, args |-> arguments,
                                      superseded |-> IF w.clear \in DOMAIN timers
                                                     THEN w.clear ELSE 0])
           /\ lastOp' = [op |-> "call", inst |-> i, id |-> id,
                         wasPending |-> FALSE, result |-> "handle"]
    /\ UNCHANGED <<rlog, cancelled, countsW, debounceW, plainVars>>

\* Mutant of limited: stores the clear function of the first call only.
limitedKeepFirst(i, arguments) ==
    /\ i \in DOMAIN rateLimitW
    /\ Len(sched) < MaxSched
    /\ LET w == rateLimitW[i]
           id == Len(sched) + 1
           cleared == IF w.clear # 0 THEN clearTimeout(timers, w.clear) ELSE timers
           cb == [inst |-> i, fn |-> w.fn, args |-> arguments, wait |-> w.wait]
       IN  /\ timers' = setTimeout(cleared, id, cb)
           /\ rateLimitW' = [rateLimitW EXCEPT ![i].clear = IF w.clear # 0 THEN w.clear ELSE id]
           /\ sched' = Append(sched, [inst |-> i, args |-> arguments,
                                      superseded |-> IF w.clear \in DOMAIN timers
                                                     THEN w.clear ELSE 0])
           /\ lastOp' = [op |-> "call", inst |-> i, id |-> id,
                         wasPending |-> FALSE, result |-> "handle"]
    /\ UNCHANGED <<rlog, cancelled, countsW, debounceW, plainVars>>

limited(i, arguments) ==
    /\ i \in DOMAIN rateLimitW
    /\ Len(sched) < MaxSched
    /\ LET w == rateLimitW[i]
           id == Len(sched) + 1
           cleared == IF w.clear # 0 THEN clearTimeout(timers, w.clear) ELSE timers
           cb == [inst |-> i, fn |-> w.fn, args |-> arguments, wait |-> w.wait]
       IN  /\ timers' = setTimeout(cleared, id, cb)
           /\ rateLimitW' = [rateLimitW EXCEPT ![i].clear = id]
           /\ sched' = Append(sched, [inst |-> i, args |-> arguments,
                                      superseded |-> IF w.clear \in DOMAIN timers
                                                     THEN w.clear ELSE 0])
           /\ lastOp' = [op |-> "call", inst |-> i, id |-> id,
                         wasPending |-> FALSE, result |-> "handle"]
    /\ UNCHANGED <<rlog, cancelled, countsW, debounceW, plainVars>>

(***************************************************************************)
(* clear(): the handle returned by the call that set timer h, invoked by   *)
(* the caller.  Every handle ever returned may be invoked, at any time.    *)
(***************************************************************************)
\* Mutant of clear: clears nothing (the id it passes is not the timer's).
clearNothing(h) ==
    /\ h \in 1..Len(sched)
    /\ timers' = timers
    /\ cancelled' = IF h \in DOMAIN timers THEN cancelled \cup {h} ELSE cancelled
    /\ lastOp' = [op |-> "clear", inst |-> sched[h].inst, id |-> h,
                  wasPending |-> h \in DOMAIN timers, result |-> Undefined]
    /\ UNCHANGED <<rateLimitW, sched, rlog, countsW, debounceW, plainVars>>

\* Mutant of clear: clears the instance's current timer, not the handle's own.
clearCurrent(h) ==
    /\ h \in 1..Len(sched)
    /\ timers' = clearTimeout(timers, rateLimitW[sched[h].inst].clear)
    /\ cancelled' = IF h \in DOMAIN timers THEN cancelled \cup {h} ELSE cancelled
    /\ lastOp' = [op |-> "clear", inst |-> sched[h].inst, id |-> h,
                  wasPending |-> h \in DOMAIN timers, result |-> Undefined]
    /\ UNCHANGED <<rateLimitW, sched, rlog, countsW, debounceW, plainVars>>

\* Mutant of clear: timeoutId is shared, so a handle clears the newest timer.
clearShared(h) ==
    /\ h \in 1..Len(sched)
    /\ timers' = clearTimeout(timers, Len(sched))
    /\ cancelled' = IF h \in DOMAIN timers THEN cancelled \cup {h} ELSE cancelled
    /\ lastOp' = [op |-> "clear", inst |-> sched[h].inst, id |-> h,
                  wasPending |-> h \in DOMAIN timers, result |-> Undefined]
    /\ UNCHANGED <<rateLimitW, sched, rlog, countsW, debounceW, plainVars>>

clear(h) ==
    /\ h \in 1..Len(sched)
    /\ timers' = clearTimeout(timers, h)
    /\ cancelled' = IF h \in DOMAIN timers THEN cancelled \cup {h} ELSE cancelled
    /\ lastOp' = [op |-> "clear", inst |-> sched[h].inst, id |-> h,
                  wasPending |-> h \in DOMAIN timers, result |-> Undefined]
    /\ UNCHANGED <<rateLimitW, sched, rlog, countsW, debounceW, plainVars>>

(***************************************************************************)
(* The callback given to setTimeout, run by the host once the delay has    *)
(* elapsed: fn.apply(this, args) with the arguments captured by the call.  *)
(***************************************************************************)
\* Mutant of timeout: the callback runs but does not call fn.
timeoutDrop(id, out) ==
    /\ id \in DOMAIN timers
    /\ lastOp' = [op |-> "fire", inst |-> timers[id].inst, id |-> id,
                  wasPending |-> TRUE, result |-> Undefined]
    /\ timers' = clearTimeout(timers, id)
    /\ UNCHANGED <<rateLimitW, sched, rlog, cancelled, countsW, debounceW, plainVars>>

timeout(id, out) ==
    /\ id \in DOMAIN timers
    /\ LET cb == timers[id]
       IN  /\ rlog' = Append(rlog, [id |-> id, at |-> Len(sched),
                                    call |-> Apply(cb.fn, "timer", cb.args, out)])
           /\ lastOp' = [op |-> "fire", inst |-> cb.inst, id |-> id,
                         wasPending |-> TRUE, result |-> out]
    /\ timers' = clearTimeout(timers, id)
    /\ UNCHANGED <<rateLimitW, sched, cancelled, countsW, debounceW, plainVars>>

(***************************************************************************)
(* arglock(fn, args...): throws unless its first argument is a function.   *)
(***************************************************************************)
ArglockError == "first argument must be a function"

\* Mutant of arglock: checks only that an argument was given.
arglockLengthOnly(arguments) ==
    IF Len(arguments) = 0
    THEN [status |-> "threw", error |-> ArglockError, fn |-> Undefined, args |-> <<>>]
    ELSE [status |-> "ok", error |-> "", fn |-> Head(arguments), args |-> Tail(arguments)]

arglock(arguments) ==
    IF Len(arguments) = 0 \/ TypeOf(arguments[1]) # "function"
    THEN [status |-> "threw", error |-> ArglockError, fn |-> Undefined, args |-> <<>>]
    ELSE [status |-> "ok", error |-> "", fn |-> Head(arguments), args |-> Tail(arguments)]

NoInvoke == [invoked |-> <<>>, result |-> Undefined]

(***************************************************************************)
(* The call of the factory.  History: `given` is the argument list it was  *)
(* called with, `fired` the number of invocations of fn made so far.       *)
(***************************************************************************)
arglockConstruct(arguments) ==
    /\ arglockW.status = "none"
    /\ arglockW' = arglock(arguments) @@
                    [given |-> arguments, calls |-> 0, fired |-> 0,
                     arguments |-> <<>>, this |-> Global, last |-> NoInvoke]
    /\ UNCHANGED <<countsW, debounceW, rateVars, whenW, timesW>>

(***************************************************************************)
(* The function arglock returns, called with `arguments` on `this`.        *)
(***************************************************************************)
\* Mutant of arglockWrapped: the call's arguments come first.
arglockWrappedSwapped(fn, args, this, arguments, out) ==
    [invoked |-> <<Apply(fn, this, arguments \o args, out)>>, result |-> out]

arglockWrapped(fn, args, this, arguments, out) ==
    [invoked |-> <<Apply(fn, this, args \o arguments, out)>>, result |-> out]

arglockCall(this, arguments, out) ==
    /\ arglockW.status = "ok"
    /\ arglockW.calls < MaxCalls
    /\ LET r == arglockWrapped(arglockW.fn, arglockW.args, this, arguments, out)
       IN  arglockW' = [arglockW EXCEPT !.calls = @ + 1,
                                        !.fired = @ + Len(r.invoked),
                                        !.arguments = arguments,
                                        !.this = this,
                                        !.last = r]
    /\ UNCHANGED <<countsW, debounceW, rateVars, whenW, timesW>>

(***************************************************************************)
(* times(count, fn, args...).  multiplied is the function it returns; the  *)
(* loop invokes fn with the bound arguments while i < count, pushing each  *)
(* return value.  outs[k] is what fn produces at its k-th invocation of    *)
(* the call; a throw ends the call with the thrown value (`error`) and no  *)
(* array is returned.                                                      *)
(***************************************************************************)
times(count, fn, args) ==
    [count |-> count, fn |-> fn, args |-> args, calls |-> 0,
     arguments |-> <<>>, this |-> Global,
     last |-> [invoked |-> <<>>, results |-> <<>>, threw |-> FALSE, error |-> Undefined]]

RECURSIVE timesLoop(_, _, _, _, _, _, _)
timesLoop(i, count, fn, this, args, outs, acc) ==
    IF i < count
    THEN LET out == outs[i + 1]
             inv == Append(acc.invoked, Apply(fn, this, args, out))
         IN  IF out \in Errors
             THEN [invoked |-> inv, results |-> <<>>, threw |-> TRUE, error |-> out]
             ELSE timesLoop(i + 1, count, fn, this, args, outs,
                            [invoked |-> inv, results |-> Append(acc.results, out),
                             threw |-> FALSE, error |-> Undefined])
    ELSE acc

\* Mutant of multiplied: a throw of fn is caught and the loop goes on.
RECURSIVE timesLoopCatch(_, _, _, _, _, _, _)
timesLoopCatch(i, count, fn, this, args, outs, acc) ==
    IF i < count
    THEN LET out == outs[i + 1]
             inv == Append(acc.invoked, Apply(fn, this, args, out))
         IN  timesLoopCatch(i + 1, count, fn, this, args, outs,
                            [invoked |-> inv,
                             results |-> IF out \in Errors THEN acc.results
                                         ELSE Append(acc.results, out),
                             threw |-> FALSE, error |-> Undefined])
    ELSE acc

multipliedCatch(w, this, arguments, outs) ==
    timesLoopCatch(0, w.count, w.fn, this, w.args, outs,
                   [invoked |-> <<>>, results |-> <<>>, threw |-> FALSE, error |-> Undefined])

\* Mutant of multiplied: `results` is shared by the calls, not made anew.
multipliedShared(w, this, arguments, outs) ==
    timesLoop(0, w.count, w.fn, this, w.args, outs,
              [invoked |-> <<>>, results |-> w.last.results, threw |-> FALSE,
               error |-> Undefined])

multiplied(w, this, arguments, outs) ==
    timesLoop(0, w.count, w.fn, this, w.args, outs,
              [invoked |-> <<>>, results |-> <<>>, threw |-> FALSE, error |-> Undefined])

timesCall(this, arguments, outs) ==
    /\ timesW # <<>>
    /\ timesW.calls < MaxCalls
    /\ timesW' = [timesW EXCEPT !.calls = @ + 1,
                                !.arguments = arguments,
                                !.this = this,
                                !.last = multiplied(timesW, this, arguments, outs)]
    /\ UNCHANGED <<countsW, debounceW, rateVars, whenW, arglockW>>

(***************************************************************************)
(* Specifications: one per combinator.  No instance of the other           *)
(* combinators exists in a combinator's specification.                     *)
(***************************************************************************)
None == <<>>
GateBound == {<<>>, <<"b">>}        \* bound argument lists of a counts or debounce
GateArgs == {<<>>, <<"a">>}         \* argument lists of calls to a counts or debounce
TimesArgs == {<<>>, <<"b">>}        \* argument lists of calls to multiplied
RlArgs == {<<"a">>, <<"b">>}       \* argument lists of calls to limited
Waits == {100}

NoPlain ==
    /\ whenW = None
    /\ arglockW = None
    /\ timesW = None

NoRate ==
    /\ rateLimitW = None
    /\ timers = None
    /\ sched = <<>>
    /\ rlog = <<>>
    /\ cancelled = {}
    /\ lastOp = NoOp

InitCounts ==
    /\ countsW \in {[i \in Inst |-> counts(k[i], "t", a)] :
                        k \in [Inst -> 0..MaxTimes], a \in GateBound}
    /\ debounceW = None
    /\ NoRate
    /\ NoPlain

NextCounts == \E i \in Inst, arguments \in GateArgs, out \in Outcomes :
                  countsCall(i, arguments, out)

SpecCounts == InitCounts /\ [][NextCounts]_vars

InitDebounce ==
    /\ debounceW \in {[i \in Inst |-> debounce(k[i], "t", a)] :
                          k \in [Inst -> 0..MaxEvery], a \in GateBound}
    /\ countsW = None
    /\ NoRate
    /\ NoPlain

NextDebounce == \E i \in Inst, arguments \in GateArgs, out \in Outcomes :
                    debounceCall(i, arguments, out)

SpecDebounce == InitDebounce /\ [][NextDebounce]_vars

InitRateLimit ==
    /\ rateLimitW \in {[i \in Inst |-> rateLimit(wt, "t", a)] : wt \in Waits, a \in GateBound}
    /\ timers = None
    /\ sched = <<>>
    /\ rlog = <<>>
    /\ cancelled = {}
    /\ lastOp = NoOp
    /\ countsW = None
    /\ debounceW = None
    /\ NoPlain

NextRateLimit ==
    \/ \E i \in Inst, arguments \in RlArgs : limited(i, arguments)
    \/ \E h \in 1..MaxSched : clear(h)
    \/ \E id \in 1..MaxSched, out \in Outcomes : timeout(id, out)

SpecRateLimit == InitRateLimit /\ [][NextRateLimit]_vars

(***************************************************************************)
(* One rateLimit instance, with the host's guarantee that a timer left     *)
(* pending is run: the event loop runs the callback of every timer whose   *)
(* delay has elapsed and that was not cleared.                             *)
(***************************************************************************)
InitRateLimitOne ==
    /\ rateLimitW \in {[i \in {"w1"} |-> rateLimit(wt, "t", a)] : wt \in Waits, a \in GateBound}
    /\ timers = None
    /\ sched = <<>>
    /\ rlog = <<>>
    /\ cancelled = {}
    /\ lastOp = NoOp
    /\ countsW = None
    /\ debounceW = None
    /\ NoPlain

SpecRateLimitFair ==
    /\ InitRateLimitOne
    /\ [][NextRateLimit]_vars
    /\ \A id \in 1..MaxSched : WF_vars(\E out \in Outcomes : timeout(id, out))

NoGates ==
    /\ countsW = None
    /\ debounceW = None

InitWhen ==
    /\ whenW \in {when(k, "t", a) : k \in {"toggle", "any"}, a \in ArgLists}
    /\ arglockW = None
    /\ timesW = None
    /\ NoGates
    /\ NoRate

NextWhen == \E this \in Receivers, arguments \in ArgLists, v \in PredVals, out \in Outcomes :
                whenCall(this, arguments, v, out)

SpecWhen == InitWhen /\ [][NextWhen]_vars

InitArglock ==
    /\ arglockW = [status |-> "none"]
    /\ whenW = None
    /\ timesW = None
    /\ NoGates
    /\ NoRate

NextArglock ==
    \/ \E arguments \in SeqsUpTo(JsVals, MaxArgs + 1) : arglockConstruct(arguments)
    \/ \E this \in Receivers, arguments \in ArgLists, out \in RetVals \cup {Throw} :
           arglockCall(this, arguments, out)

SpecArglock == InitArglock /\ [][NextArglock]_vars

InitTimes ==
    /\ timesW \in {times(c, "t", a) : c \in 0..MaxCount, a \in ArgLists}
    /\ whenW = None
    /\ arglockW = None
    /\ NoGates
    /\ NoRate

NextTimes ==
    \E this \in Receivers, arguments \in TimesArgs,
       outs \in [1..timesW.count -> RetVals \cup Errors] :
        timesCall(this, arguments, outs)

SpecTimes == InitTimes /\ [][NextTimes]_vars

(***************************************************************************)
(* Two counts, two debounce and two rateLimit instances side by side, all  *)
(* wrapping the same target, with at most MaxShared calls of wrapped        *)
(* functions in a run.                                                     *)
(***************************************************************************)
SharedParam == [w1 |-> 1, w2 |-> 2]    \* the `times` and `every` of the instances

RECURSIVE SumCalls(_, _)
SumCalls(W, S) ==
    IF S = {} THEN 0
    ELSE LET i == CHOOSE x \in S : TRUE
         IN  W[i].calls + SumCalls(W, S \ {i})

CallsMade == SumCalls(countsW, DOMAIN countsW) + SumCalls(debounceW, DOMAIN debounceW)
                 + Len(sched)

InitShared ==
    /\ countsW = [i \in Inst |-> counts(SharedParam[i], "t", <<"b">>)]
    /\ debounceW = [i \in Inst |-> debounce(SharedParam[i], "t", <<"b">>)]
    /\ rateLimitW = [i \in Inst |-> rateLimit(100, "t", <<>>)]
    /\ timers = None
    /\ sched = <<>>
    /\ rlog = <<>>
    /\ cancelled = {}
    /\ lastOp = NoOp
    /\ NoPlain

NextShared ==
    \/ CallsMade < MaxShared /\ \E i \in Inst : countsCall(i, <<"a">>, "r1")
    \/ CallsMade < MaxShared /\ \E i \in Inst : debounceCall(i, <<"a">>, "r1")
    \/ CallsMade < MaxShared /\ \E i \in Inst : limited(i, <<"a">>)
    \/ \E h \in 1..MaxSched : clear(h)
    \/ \E id \in 1..MaxSched : timeout(id, "r1")

SpecShared == InitShared /\ [][NextShared]_vars

(***************************************************************************)
(* Properties.                                                             *)
(***************************************************************************)
FiredIds == {rlog[k].id : k \in 1..Len(rlog)}
PendingOf(i) == {id \in DOMAIN timers : timers[id].inst = i}
IdsOf(i) == {id \in 1..Len(sched) : sched[id].inst = i}
IsLatest(id) == \A x \in IdsOf(sched[id].inst) : x <= id

\* C1: once a counts(K, t) wrapped function has been called M >= K times,
\* t has fired exactly on calls 1..K (K times), and on no call after the K-th.
C1_CountsFiresOnFirstK ==
    \A i \in DOMAIN countsW :
        countsW[i].calls >= countsW[i].times =>
            /\ countsW[i].firedOn = 1..countsW[i].times
            /\ Cardinality(countsW[i].firedOn) = countsW[i].times

C3_AtMostOneOutstanding ==
    \A i \in DOMAIN rateLimitW : Cardinality(PendingOf(i)) <= 1

C3_Witness ==
    /\ lastOp.op = "clear"
    /\ ~IsLatest(lastOp.id)
    /\ Cardinality(IdsOf(lastOp.inst)) >= 3
    /\ Cardinality(PendingOf(lastOp.inst)) = 1
    /\ sched[Len(sched)].superseded # 0

\* C4: a scheduled invocation that a later call of the same wrapped function
\* found pending never fires: every firing is of the latest call made to its
\* instance up to then, with that call's arguments, and only the latest call's
\* timer is ever pending.
C4_SupersededNeverFires ==
    /\ \A k \in 1..Len(rlog) :
           LET e == rlog[k]
           IN  /\ \A x \in (e.id + 1)..e.at : sched[x].inst # sched[e.id].inst
               /\ e.call.args = sched[e.id].args
    /\ \A id \in DOMAIN timers : IsLatest(id)
    /\ \A id \in 1..Len(sched) : sched[id].superseded \notin FiredIds

C4_Witness ==
    \E k \in 1..Len(rlog) :
        LET e == rlog[k]
            old == sched[e.id].superseded
        IN  /\ old # 0
            /\ sched[old].args # sched[e.id].args
            /\ e.call.args = sched[e.id].args

\* C5: a scheduled invocation whose handle was invoked while it was pending
\* never fires; and while the wrapped function has not been called again since,
\* the instance has no outstanding scheduled invocation.
C5_CancelledNeverFires ==
    \A c \in cancelled :
        /\ c \notin FiredIds
        /\ c \notin DOMAIN timers
        /\ IsLatest(c) => PendingOf(sched[c].inst) = {}

C5_Witness ==
    \E c \in cancelled :
        /\ IsLatest(c)
        /\ sched[c].superseded # 0
        /\ lastOp.op = "fire"
        /\ lastOp.inst # sched[c].inst

\* C6: invoking a cancellation handle whose scheduled invocation is no longer
\* pending (it fired, or was cancelled already) changes neither the pending
\* timers nor the target's invocations, and returns without an error.
C6_SpentHandleIsNoOp ==
    [][(lastOp'.op = "clear" /\ ~lastOp'.wasPending) =>
          /\ timers' = timers
          /\ rlog' = rlog
          /\ rateLimitW' = rateLimitW
          /\ lastOp'.result = Undefined]_vars

C6_Witness ==
    /\ lastOp.op = "clear"
    /\ ~lastOp.wasPending
    /\ lastOp.id \in FiredIds
    /\ cancelled # {}
    /\ PendingOf(lastOp.inst) # {}

\* C7: every call of a when(p, t) wrapped function evaluates p exactly once and
\* invokes t once if that evaluation was truthy, not at all if it was falsy,
\* also for a predicate that changes its own state at each evaluation.
C7_WhenEvaluatesOnce ==
    whenW # <<>> =>
        /\ whenW.st.evals = whenW.calls
        /\ whenW.fired = whenW.truthy
        /\ whenW.calls > 0 =>
              /\ Len(whenW.last.invoked) = (IF whenW.last.value \in Falsy THEN 0 ELSE 1)
              /\ whenW.kind = "toggle" =>
                    whenW.last.value = (IF whenW.st.doLog THEN "true" ELSE "false")

C7_Witness ==
    /\ whenW # <<>>
    /\ whenW.kind = "toggle"
    /\ whenW.calls = 3
    /\ whenW.fired = 2
    /\ Len(whenW.last.invoked) = 1

\* C8: arglock called with no argument, or with a first argument that is not a
\* function, throws and yields no wrapped function; called with a function
\* first it returns one, and the call of the factory invokes no function.
C8_ArglockValidates ==
    arglockW.status # "none" =>
        LET g == arglockW.given
            bad == Len(g) = 0 \/ g[1] \notin Fns
        IN  /\ bad => /\ arglockW.status = "threw"
                      /\ arglockW.error = "first argument must be a function"
                      /\ arglockW.calls = 0
                      /\ arglockW.fired = 0
            /\ ~bad => /\ arglockW.status = "ok"
                       /\ arglockW.fn = g[1]
                       /\ arglockW.calls = 0 => arglockW.fired = 0

C8_Witness ==
    /\ arglockW.status = "threw"
    /\ arglockW.given = <<"42", "t">>

\* C9: each call w(C) of the function arglock(t, B) returned invokes t exactly
\* once, with B followed by C, and its outcome is t's; B is the same at every
\* call.
C9_ArglockForwards ==
    arglockW.status = "ok" =>
        /\ arglockW.args = Tail(arglockW.given)
        /\ arglockW.fired = arglockW.calls
        /\ arglockW.calls > 0 =>
              /\ Len(arglockW.last.invoked) = 1
              /\ arglockW.last.invoked[1].fn = arglockW.given[1]
              /\ arglockW.last.invoked[1].args = Tail(arglockW.given) \o arglockW.arguments
              /\ arglockW.last.invoked[1].this = arglockW.this
              /\ arglockW.last.result = arglockW.last.invoked[1].out

C9_Witness ==
    /\ arglockW.status = "ok"
    /\ arglockW.given = <<"t", "a">>
    /\ arglockW.calls = 2
    /\ arglockW.arguments = <<"b">>
    /\ arglockW.last.result = "r2"

C11_RateLimitAppliesBoundArgs ==
    \A k \in 1..Len(rlog) :
        LET e == rlog[k]
            c == sched[e.id]
        IN  e.call.args = rateLimitW[c.inst].given \o c.args

\* C12: if the target throws during repetition k of a call of a times wrapped
\* function, the call ends with that very error, repetition k is the last
\* invocation of the target in the call, and no result sequence is returned;
\* a call ends with an error only so.
C12_TimesThrowPropagates ==
    (timesW # <<>> /\ timesW.calls > 0) =>
        LET l == timesW.last
            k == Len(l.invoked)
            raised == {j \in 1..k : l.invoked[j].out \in {"throw", "throw2"}}
        IN  /\ raised # {} => /\ l.threw
                              /\ raised = {k}
                              /\ k <= timesW.count
                              /\ l.error = l.invoked[k].out
                              /\ l.results = <<>>
            /\ raised = {} => ~l.threw

C12_Witness ==
    /\ timesW # <<>>
    /\ timesW.count = 3
    /\ timesW.last.threw
    /\ timesW.last.error = "throw2"
    /\ Len(timesW.last.invoked) = 2
    /\ timesW.last.invoked[1].out = "r1"

\* C13: a scheduled invocation that is neither cancelled through its handle
\* nor superseded by a later call of the wrapped function eventually fires; a
\* firing invokes the target once, with the arguments the scheduling call
\* captured, and leaves its instance without an outstanding invocation.
FiringsOf(id) == {k \in 1..Len(rlog) : rlog[k].id = id}

C13_PendingEventuallyFires ==
    /\ \A id \in 1..MaxSched :
           (id \in DOMAIN timers) ~>
               (id <= Len(sched) /\ (id \in FiredIds \/ id \in cancelled \/ ~IsLatest(id)))
    /\ [](\A id \in 1..Len(sched) :
             /\ Cardinality(FiringsOf(id)) <= 1
             /\ \A k \in FiringsOf(id) : /\ rlog[k].call.args = sched[id].args
                                          /\ rlog[k].call.fn = rateLimitW[sched[id].inst].fn
             /\ id \in FiredIds => id \notin DOMAIN timers)
    /\ [](lastOp.op = "fire" => /\ lastOp.id \in FiredIds
                                /\ PendingOf(lastOp.inst) = {})

C13_Witness ==
    /\ lastOp.op = "fire"
    /\ IsLatest(lastOp.id)
    /\ lastOp.id \notin cancelled
    /\ sched[lastOp.id].superseded # 0
    /\ rlog[Len(rlog)].call.args = sched[lastOp.id].args
    /\ PendingOf(lastOp.inst) = {}

\* C14: a cancellation handle cancels only the scheduled invocation of the
\* call that returned it: invoking any handle leaves every other pending
\* timer pending, with its callback as it was, so a later call's invocation
\* outlives a stale handle and can still fire.
C14_HandleCancelsOnlyItsOwn ==
    [][lastOp'.op = "clear" =>
          \A id \in DOMAIN timers \ {lastOp'.id} :
              /\ id \in DOMAIN timers'
              /\ timers'[id] = timers[id]]_vars

C14_Witness ==
    /\ lastOp.op = "clear"
    /\ lastOp.id \in FiredIds
    /\ \E id \in PendingOf(lastOp.inst) :
           /\ id > lastOp.id
           /\ timers[id].args # sched[lastOp.id].args

\* C15: the counter of a debounce instance starts at 0 and has grown by one at
\* each call of the wrapped function, whether or not the target fired: after
\* M calls it is M.
C15_DebounceCounterIsCalls ==
    \A i \in DOMAIN debounceW : debounceW[i].count = debounceW[i].calls

C15_Witness ==
    \E i \in DOMAIN debounceW :
        /\ debounceW[i].every = 3
        /\ debounceW[i].calls = 4
        /\ debounceW[i].count = 4
        /\ debounceW[i].firedOn = {3}
        /\ debounceW[i].last.invoked = <<>>

\* C16: the counter of a counts instance starts at 0, never exceeds the limit
\* and stays at the limit once there: after M calls it is min(M, limit).
C16_CountsCounterIsMin ==
    \A i \in DOMAIN countsW :
        LET w == countsW[i]
        IN  /\ w.count <= w.times
            /\ w.count = (IF w.calls < w.times THEN w.calls ELSE w.times)

C16_Witness ==
    \E i \in DOMAIN countsW :
        /\ countsW[i].times = 2
        /\ countsW[i].calls = 4
        /\ countsW[i].count = 2

\* C19: debounce(0, t) is constructed without an error, and no call of the
\* wrapped function fires t or raises, while its counter still grows by one
\* per call.
C19_DebounceZeroNeverFires ==
    \A i \in DOMAIN debounceW :
        LET w == debounceW[i]
        IN  w.every = 0 =>
                /\ w.firedOn = {}
                /\ w.last.invoked = <<>>
                /\ w.last.result = "undefined"
                /\ w.count = w.calls

C19_Witness ==
    \E i \in DOMAIN debounceW :
        /\ debounceW[i].every = 0
        /\ debounceW[i].calls = 3
        /\ debounceW[i].count = 3
        /\ debounceW[i].firedOn = {}

\* C18: a call w(C) of the function when(p, t, B) returned whose predicate
\* value is truthy invokes t with B followed by C, on the call's receiver, and
\* its outcome is t's; one whose predicate value is falsy returns undefined
\* and invokes nothing.  No call changes B or t.
C18_WhenForwards ==
    /\ [](whenW # <<>> /\ whenW.calls > 0 =>
             LET l == whenW.last
             IN  IF l.value \in {"false", "0", "", "undefined", "null", "NaN"}
                 THEN l.invoked = <<>> /\ l.result = "undefined"
                 ELSE /\ Len(l.invoked) = 1
                      /\ l.invoked[1].fn = whenW.fn
                      /\ l.invoked[1].this = whenW.this
                      /\ l.invoked[1].args = whenW.args \o whenW.arguments
                      /\ l.result = l.invoked[1].out)
    /\ [][whenW # <<>> => /\ whenW'.args = whenW.args
                          /\ whenW'.fn = whenW.fn
                          /\ whenW'.last.invoked = <<>> => whenW'.fired = whenW.fired]_vars

C18_Witness ==
    /\ whenW # <<>>
    /\ whenW.kind = "any"
    /\ whenW.calls = 2
    /\ whenW.last.value = "x"
    /\ whenW.args = <<"a">>
    /\ whenW.arguments = <<"b">>
    /\ whenW.this = "obj"
    /\ whenW.last.result = "r1"
    /\ whenW.fired = 1

\* C17: independently created wrapped functions share no state: a call of one
\* instance, the firing of its timer or the invocation of one of its handles
\* changes the state of that instance alone; the counter and history of every
\* other debounce and counts instance, and the closure, pending timer and
\* target invocations of every other rateLimit instance, stay as they were,
\* all instances wrapping the same target.
RateView(rl, tm, lg, sc, i) ==
    <<rl[i],
      [id \in {x \in DOMAIN tm : tm[x].inst = i} |-> tm[id]],
      SelectSeq(lg, LAMBDA e : sc[e.id].inst = i)>>

C17_InstancesShareNoState ==
    [][Cardinality(
           {<<"counts", i>> : i \in {j \in Inst : countsW'[j] # countsW[j]}}
           \cup {<<"debounce", i>> : i \in {j \in Inst : debounceW'[j] # debounceW[j]}}
           \cup {<<"rateLimit", i>> : i \in {j \in Inst :
                     RateView(rateLimitW', timers', rlog', sched', j)
                         # RateView(rateLimitW, timers, rlog, sched, j)}}) <= 1]_vars

C17_Witness ==
    /\ countsW # <<>> /\ debounceW # <<>>
    /\ countsW["w1"].calls = 1
    /\ countsW["w2"].calls = 0
    /\ debounceW["w2"].calls = 1
    /\ debounceW["w2"].count = 1
    /\ debounceW["w1"].count = 0
    /\ lastOp.op = "fire"
    /\ lastOp.inst = "w1"
    /\ PendingOf("w2") # {}

====
